---- MODULE Spec2Model ----
(***************************************************************************)
(* The conversation-to-device dispatch loop of ixc.py: run_chat_loop,      *)
(* process_operator_commands, process_llm_commands, query_llm_api,         *)
(* confirm_config_change and the part of main() that wraps the loop.       *)
(*                                                                         *)
(* Text is a sequence of one-character strings (or of larger chunks where  *)
(* the code never looks inside them), so that prefix tests, the forbidden  *)
(* command pattern and the substring test for the rejection sentinel are   *)
(* computed the way the code computes them.                                *)
(***************************************************************************)
EXTENDS Integers, Sequences, FiniteSets, TLC

VARIABLES
    pc,             \* position of run_chat_loop / the process
    user_input,     \* run_chat_loop_params["user_input"]: the conversation store
    context_depth,  \* run_chat_loop_params["context_depth"]
    total_tokens,   \* run_chat_loop_params["total_tokens"]
    prompt,         \* run_chat_loop_params["prompt"]
    model,          \* run_chat_loop_params["model"]
    input_query,    \* run_chat_loop_params["input_query"]
    reply,          \* local reply of run_chat_loop
    token_count,    \* local token_count of run_chat_loop
    command_resp,   \* local command_resp of run_chat_loop
    recursion,      \* depth of the confirm_config_change recursion
    event,          \* which branch of the code the last step took
    sent,           \* commands handed to the device session by the last step
    conf_sent,      \* configuration sets submitted by the last step
    answer,         \* what the operator typed at the last confirmation prompt
    disconnected,   \* conn.disconnect() has been called
    tokens_logged,  \* log_session_tokens() has been called
    exit_status,    \* exit status of the process once pc = "exited"
    channel,        \* the path send_device_command took for each command of sent
    llm_calls,      \* query_llm_api calls made by the current pass
    displayed,      \* texts the last step handed to pydoc.pager
    llm_input       \* the input the last query_llm_api call of the pass sent

vars == <<pc, user_input, context_depth, total_tokens, prompt, model,
          input_query, reply, token_count, command_resp, recursion, event,
          sent, conf_sent, answer, disconnected, tokens_logged,
          exit_status, channel, llm_calls, displayed, llm_input>>

---------------------------------------------------------------------------
(* Bounds of the model *)

\* longest conversation store the model lets a turn build
MaxStore == 5
\* largest token count one LLM call reports
MaxTok == 1
\* total_tokens is not driven past this
MaxTotal == 2
\* the confirm_config_change recursion overflows the interpreter's stack
\* after this many unanswered prompts
RecursionLimit == 2

---------------------------------------------------------------------------
(* Text *)

UpperToLower ==
    [A |-> "a", B |-> "b", C |-> "c", D |-> "d", E |-> "e", F |-> "f",
     G |-> "g", H |-> "h", I |-> "i", J |-> "j", K |-> "k", L |-> "l",
     M |-> "m", N |-> "n", O |-> "o", P |-> "p", Q |-> "q", R |-> "r",
     S |-> "s", T |-> "t", U |-> "u", V |-> "v", W |-> "w", X |-> "x",
     Y |-> "y", Z |-> "z"]

\* one character under re.IGNORECASE / str.lower()
LowerChar(c) == IF c \in DOMAIN UpperToLower THEN UpperToLower[c] ELSE c

\* str.lower()
Lower(s) == [i \in 1..Len(s) |-> LowerChar(s[i])]

\* str.startswith(p)
StartsWith(s, p) == Len(s) >= Len(p) /\ SubSeq(s, 1, Len(p)) = p

\* p in s  (substring test)
Contains(s, p) ==
    \E i \in 1..(Len(s) - Len(p) + 1) : SubSeq(s, i, i + Len(p) - 1) = p

\* str(None)
NoneText == <<"N", "o", "n", "e">>

\* the f-string "%%FORBIDDEN COMMAND: {command}" up to the command
SentinelHead ==
    <<"%", "%", "F", "O", "R", "B", "I", "D", "D", "E", "N", " ",
      "C", "O", "M", "M", "A", "N", "D", ":", " ">>

\* the literal "%%FORBIDDEN COMMAND" run_chat_loop looks for
SentinelMark == SubSeq(SentinelHead, 1, 19)

---------------------------------------------------------------------------
(* Commands and the safety filter *)

cmd_show   == <<"s", "h", "o", "w">>
cmd_copy   == <<"c", "o", "p", "y">>
cmd_COPY   == <<"C", "O", "P", "Y">>
cmd_erase  == <<"e", "r", "a", "s", "e">>
cmd_Reload == <<"R", "e", "l", "o", "a", "d">>
cmd_reload == <<"r", "e", "l", "o", "a", "d">>
cmd_debug  == <<"d", "e", "b", "u", "g">>
cmd_DELETE == <<"D", "E", "L", "E", "T", "E">>

\* the batches the scripted LLM may ask for
BatchShow  == <<cmd_show>>
BatchMixed == <<cmd_show, cmd_COPY, cmd_Reload, cmd_debug, cmd_DELETE, cmd_erase>>
BatchForb  == <<cmd_reload>>

\* re.compile(r"^co.+|^re.+|^de.+", re.IGNORECASE).search(command):
\* the string starts with co, re or de and one more character that is not
\* a newline follows
ForbiddenPrefixes == {<<"c", "o">>, <<"r", "e">>, <<"d", "e">>}

forbiddenMutNoCase(command) ==
    /\ Len(command) >= 3
    /\ SubSeq(command, 1, 2) \in ForbiddenPrefixes
    /\ command[3] # "\n"

forbidden(command) ==
    /\ Len(command) >= 3
    /\ Lower(SubSeq(command, 1, 2)) \in ForbiddenPrefixes
    /\ command[3] # "\n"

---------------------------------------------------------------------------
(* The device session (netmiko), seen from the code *)

\* texts the device can answer with: the version banner, and a text that
\* happens to hold the words of the rejection sentinel
VersionText  == <<"Version ", "17.3.1">>
MarkText     == SentinelMark
ChassisHead  == "Chassis type: "

DeviceTexts == {VersionText, MarkText}

\* exceptions the device session can raise
Exceptions == {"ConnectionException", "Exception", "KeyboardInterrupt"}

\* what one send_device_command(conn, command) does:
\*   "text"  the device answered,
\*   "none"  the try block raised an Exception: logged, None is returned,
\*   "raise" get_device_prompt(conn), outside the try block, raised
Outcomes ==
    [kind : {"text"}, text : DeviceTexts, exc : {"-"}]
      \cup [kind : {"none"}, text : {<<>>}, exc : {"-"}]
      \cup [kind : {"raise"}, text : {<<>>}, exc : Exceptions]

\* str(send_device_command(conn, command)) for an outcome that returns
StrOutcome(o) == IF o.kind = "text" THEN o.text ELSE NoneText

\* process_llm_commands(conn, commands): o[i] is what the device does with
\* commands[i] if it is sent.  The result is the text built so far, the
\* commands handed to the device, and the exception that ended the call
\* ("-" when it returned).
RECURSIVE ProcFrom(_, _, _, _, _)
ProcFrom(commands, o, i, resp, out) ==
    IF i > Len(commands)
        THEN [resp |-> resp, sent |-> out, exc |-> "-"]
    ELSE IF forbidden(commands[i])
        THEN ProcFrom(commands, o, i + 1,
                      resp \o SentinelHead \o commands[i], out)
    ELSE IF o[i].kind = "raise"
        THEN [resp |-> resp, sent |-> out, exc |-> o[i].exc]
    ELSE ProcFrom(commands, o, i + 1,
                  resp \o StrOutcome(o[i]), Append(out, commands[i]))

RECURSIVE ProcFromMutStop(_, _, _, _, _)
ProcFromMutStop(commands, o, i, resp, out) ==
    IF i > Len(commands)
        THEN [resp |-> resp, sent |-> out, exc |-> "-"]
    ELSE IF forbidden(commands[i])
        THEN [resp |-> resp \o SentinelHead \o commands[i],
              sent |-> out, exc |-> "-"]
    ELSE IF o[i].kind = "raise"
        THEN [resp |-> resp, sent |-> out, exc |-> o[i].exc]
    ELSE ProcFromMutStop(commands, o, i + 1,
                  resp \o StrOutcome(o[i]), Append(out, commands[i]))

process_llm_commandsMutSendAll(commands, o) ==
    LET r == ProcFrom(commands, o, 1, <<>>, <<>>)
    IN  [r EXCEPT !.sent = IF r.exc = "-" THEN commands ELSE r.sent]

process_llm_commandsMutStop(commands, o) ==
    ProcFromMutStop(commands, o, 1, <<>>, <<>>)

process_llm_commands(commands, o) == ProcFrom(commands, o, 1, <<>>, <<>>)

\* the commands of a batch that reach send_device_command
PermittedIdx(commands) ==
    {i \in 1..Len(commands) : ~forbidden(commands[i])}

\* one outcome for every command of the batch that reaches the device
BatchOutcomes(commands) == [PermittedIdx(commands) -> Outcomes]

\* everything process_llm_commands(conn, commands) can do
BatchResults(commands) ==
    {process_llm_commands(commands, o) : o \in BatchOutcomes(commands)}

---------------------------------------------------------------------------
(* LLM replies: what ast.literal_eval(response.output_text) gives *)

Keys == {"answer", "command", "configure"}

AnswerText  == <<"The hostname is R1.">>
ConfigLines == <<<<"no ip domain lookup">>>>

Rep(isdict, keys, other, command, configure) ==
    [isdict |-> isdict, keys |-> keys, other |-> other,
     command |-> command, configure |-> configure,
     answer |-> IF "answer" \in keys THEN AnswerText ELSE <<>>]

\* the empty dict {}
EmptyReply == Rep(TRUE, {}, FALSE, <<>>, <<>>)

\* reply == {}
IsEmptyDict(r) == r.isdict /\ r.keys = {} /\ ~r.other

\* the replies the scripted LLM can give
Replies ==
    { Rep(TRUE, {"answer"}, FALSE, <<>>, <<>>),
      Rep(TRUE, {"command"}, FALSE, BatchShow, <<>>),
      Rep(TRUE, {"command"}, FALSE, BatchMixed, <<>>),
      Rep(TRUE, {"configure"}, FALSE, <<>>, ConfigLines),
      Rep(TRUE, {"command", "configure"}, FALSE, BatchForb, ConfigLines),
      Rep(TRUE, {"answer", "configure"}, FALSE, <<>>, ConfigLines),
      Rep(TRUE, {}, TRUE, <<>>, <<>>),
      Rep(FALSE, {}, FALSE, <<>>, <<>>),
      EmptyReply }

\* str(list of strings)
RECURSIVE StrList(_)
StrList(l) ==
    IF l = <<>> THEN <<>>
    ELSE <<"'">> \o Head(l) \o <<"'">>
         \o (IF Len(l) > 1 THEN <<", ">> ELSE <<>>) \o StrList(Tail(l))

\* str(reply) of a dict reply
StrReply(r) ==
    <<"{">>
    \o (IF "command" \in r.keys
          THEN <<"'command': [">> \o StrList(r.command) \o <<"]">> ELSE <<>>)
    \o (IF "answer" \in r.keys
          THEN <<"'answer': '">> \o r.answer \o <<"'">> ELSE <<>>)
    \o (IF "configure" \in r.keys
          THEN <<"'configure': [">> \o StrList(r.configure) \o <<"]">> ELSE <<>>)
    \o (IF r.other THEN <<"'note': ''">> ELSE <<>>)
    \o <<"}">>

\* what happens inside the try block of query_llm_api: the request or
\* ast.literal_eval raises, or the text parses to a reply and the gateway
\* reports the tokens used (0 when it reports no usage)
LLMOutcomes ==
    [kind : {"raises"}, reply : {EmptyReply}, usage : {0}]
      \cup [kind : {"parsed"}, reply : Replies, usage : 0..MaxTok]

query_llm_apiMutAnswerOnFailure(o) ==
    IF o.kind = "raises"
      THEN <<Rep(TRUE, {"answer"}, FALSE, <<>>, <<>>), 0>>
      ELSE <<o.reply, o.usage>>

\* query_llm_api(api_params): every exception is logged and ({}, 0) is
\* returned, otherwise the parsed reply and the tokens
query_llm_api(o) ==
    IF o.kind = "raises" THEN <<EmptyReply, 0>> ELSE <<o.reply, o.usage>>

\* everything query_llm_api can return
LLMResults == {query_llm_api(o) : o \in LLMOutcomes}

---------------------------------------------------------------------------
(* Messages and the developer prompt *)

Msg(role, content) == [role |-> role, content |-> content]

\* the prompt file as load_prompt_from_file can find it
PromptFiles == {<<"ixc_prompt.md">>}

\* match.group(1) of re.search(head + "(...)", text): the chunk after head,
\* <<>> when the text does not match
Group1(text, head) ==
    LET at == {i \in 1..(Len(text) - 1) : text[i] = head}
    IN  IF at = {} THEN <<>>
        ELSE <<text[(CHOOSE i \in at : \A j \in at : i <= j) + 1]>>

\* get_device_info(conn) when both send_device_command calls return: the
\* version and the chassis are looked up in str(show_version) and
\* str(show_platform)
device_info(show_version, show_platform) ==
    LET version == Group1(show_version, VersionText[1])
        chassis == Group1(show_platform, ChassisHead)
    IN  <<"(json) ">>
        \o (IF version # <<>>
              THEN <<"{ 'IOS-XE Version': ">> \o version ELSE <<>>)
        \o (IF chassis # <<>>
              THEN <<" 'Chassis': ">> \o chassis \o <<" }">> ELSE <<>>)
        \o <<"(end)">>

VersionCmd  == <<"show version">>
PlatformCmd == <<"show platform">>

\* get_device_info(conn): the outcomes of its two send_device_command
\* calls give the text, or the exception that get_device_prompt raised,
\* and the commands that were handed to the device
get_device_info(ov, op) ==
    IF ov.kind = "raise"
        THEN [exc |-> ov.exc, text |-> <<>>, asked |-> <<>>]
    ELSE IF op.kind = "raise"
        THEN [exc |-> op.exc, text |-> <<>>, asked |-> <<VersionCmd>>]
    ELSE [exc |-> "-",
          text |-> device_info(StrOutcome(ov), StrOutcome(op)),
          asked |-> <<VersionCmd, PlatformCmd>>]

\* everything get_device_info(conn) can do
DeviceInfoResults == {get_device_info(ov, op) : ov \in Outcomes, op \in Outcomes}

---------------------------------------------------------------------------
(* Operator input *)

MODELS == [k \in {1, 2, 3} |->
             CASE k = 1 -> "gpt-5-mini" [] k = 2 -> "gpt-5" [] k = 3 -> "gpt-5-nano"]

Whitespace == {" ", "\t", "\n"}
Digits == {"0", "1", "2", "3", "4", "5", "6", "7", "8", "9"}

DigitValue(c) ==
    CASE c = "0" -> 0 [] c = "1" -> 1 [] c = "2" -> 2 [] c = "3" -> 3
      [] c = "4" -> 4 [] c = "5" -> 5 [] c = "6" -> 6 [] c = "7" -> 7
      [] c = "8" -> 8 [] c = "9" -> 9

\* int(s) for a string of digits
RECURSIVE IntOf(_)
IntOf(s) ==
    IF s = <<>> THEN 0
    ELSE 10 * IntOf(SubSeq(s, 1, Len(s) - 1)) + DigitValue(s[Len(s)])

\* the end of the longest run of characters of set cs that starts at s[i]
\* (i - 1 when s[i] is not in cs)
RECURSIVE RunEnd(_, _, _)
RunEnd(s, i, cs) ==
    IF i <= Len(s) /\ s[i] \in cs THEN RunEnd(s, i + 1, cs) ELSE i - 1

\* re.compile(r"^/c\s+(.+)").search(line): group(1), or <<>> for no match.
\* \s+ takes the whole run of whitespace after "/c" and gives one character
\* back when nothing else is left for (.+); (.+) stops at a newline.
ParseCommand(line) ==
    LET ws   == RunEnd(line, 3, Whitespace)
        from == IF ws < Len(line) THEN ws + 1 ELSE ws
        rest == SubSeq(line, from, Len(line))
        upto == RunEnd(rest, 1, {rest[i] : i \in 1..Len(rest)} \ {"\n"})
    IN  IF StartsWith(line, <<"/", "c">>) /\ ws >= 3 /\ from >= 4
           THEN SubSeq(rest, 1, upto)
           ELSE <<>>

\* re.search(r"^/s\s+(\d+)", line): group(1), or <<>> for no match
ParseModelKey(line) ==
    LET ws == RunEnd(line, 3, Whitespace)
        ds == RunEnd(line, ws + 1, Digits)
    IN  IF StartsWith(line, <<"/", "s">>) /\ ws >= 3 /\ ds > ws
           THEN SubSeq(line, ws + 1, ds)
           ELSE <<>>

\* what the operator may type at the chatbot prompt
SlashLines ==
    { <<"/", "n">>, <<"/", "p">>, <<"/", "m">>, <<"/", "r">>,
      <<"/", "c", " ">> \o cmd_show, <<"/", "c", " ">> \o cmd_copy,
      <<"/", "c">>,
      <<"/", "c", " ">> \o cmd_show \o <<"?">>, <<"/", "c", " ", "?">>,
      <<"/", "s", " ", "2">>, <<"/", "s", " ", "9">>, <<"/", "s">>,
      <<"/", "s", " ", "x">>,
      <<"/", "q">>, <<"/", "x">>, <<>> }

FreeLines == { <<"what is the hostname?">> }

\* what the operator may type at "Commit changes [y/n]: " (EOF reads as "")
ConfirmLines == { <<"y">>, <<"Y">>, <<"n">>, <<"N">>, <<>>, <<"y", "e", "s">> }

---------------------------------------------------------------------------
(* run_chat_loop *)

\* the state when run_chat_loop first prompts the operator: the prompt file
\* was read and get_device_info(conn) returned
Init ==
    /\ pc = "await"
    /\ \E f \in PromptFiles, info \in {x \in DeviceInfoResults : x.exc = "-"} :
          /\ prompt = f \o info.text
          /\ user_input = <<Msg("developer", prompt)>>
    /\ context_depth = 0
    /\ total_tokens = 0
    /\ model = MODELS[1]
    /\ input_query = <<>>
    /\ reply = EmptyReply
    /\ token_count = 0
    /\ command_resp = <<>>
    /\ recursion = 0
    /\ event = <<"start">>
    /\ sent = <<>>
    /\ conf_sent = <<>>
    /\ answer = <<>>
    /\ disconnected = FALSE
    /\ tokens_logged = FALSE
    /\ exit_status = -1
    /\ channel = <<>>
    /\ llm_calls = 0
    /\ displayed = <<>>
    /\ llm_input = <<>>

\* An exception leaves the try block of run_chat_loop (the except clauses
\* of run_chat_loop, then those of main): a connection-level failure ends
\* the process with status 1, a KeyboardInterrupt unwinds to main, which
\* disconnects, any other Exception is logged and the loop goes on.
Unwind(exc, ev) ==
    /\ event' = ev \o <<exc>>
    /\ recursion' = 0
    /\ displayed' = <<>>
    /\ IF exc \in {"ConnectionException", "socket.error"}
          THEN /\ pc' = "exited"
               /\ exit_status' = 1
               /\ UNCHANGED <<disconnected, tokens_logged>>
       ELSE IF exc = "KeyboardInterrupt"
          THEN /\ pc' = "exited"
               /\ exit_status' = 0
               /\ disconnected' = TRUE
               /\ UNCHANGED tokens_logged
       ELSE /\ pc' = "await"
            /\ UNCHANGED <<exit_status, disconnected, tokens_logged>>

\* the step goes on to the position p of the loop, having handed the
\* texts to pydoc.pager
GotoShowing(p, ev, texts) ==
    /\ pc' = p
    /\ event' = ev
    /\ recursion' = 0
    /\ displayed' = texts
    /\ UNCHANGED <<exit_status, disconnected, tokens_logged>>

\* the step goes on to the position p of the loop and showed nothing
Goto(p, ev) == GotoShowing(p, ev, <<>>)

\* send_device_command(conn, command) takes the completion-query path
\* when re.search(r".+\?$", command) matches: a "?" that ends the string, or
\* stands right before a newline that ends it, with a character other than
\* a newline before it
completion_query(command) ==
    \E k \in 2..Len(command) :
        /\ command[k] = "?"
        /\ command[k - 1] # "\n"
        /\ \/ k = Len(command)
           \/ k = Len(command) - 1 /\ command[Len(command)] = "\n"

\* the path send_device_command takes for a command
Route(command) ==
    IF completion_query(command) THEN "write_channel" ELSE "send_command"

\* the step hands these commands to the device session, each on the path
\* send_device_command chooses for it
Hand(commands) ==
    /\ sent' = commands
    /\ channel' = [i \in DOMAIN commands |-> Route(commands[i])]

\* A pass of the while loop starts at line 801.  input_query, reply,
\* token_count and command_resp are assigned in every pass before they are
\* read (lines 801, 827, 840, 853), so what they held in the pass before is
\* dropped here; the pass then stores the line it reads in input_query.
PassStarts ==
    /\ reply' = EmptyReply
    /\ token_count' = 0
    /\ command_resp' = <<>>
    /\ answer' = <<>>
    /\ llm_calls' = 0
    /\ llm_input' = <<>>

\* the /n branch of process_operator_commands
NewContextMutKeepDepth ==
    /\ user_input' = <<Msg("developer", prompt)>>
    /\ context_depth' = context_depth
    /\ UNCHANGED <<total_tokens, prompt, model>>
    /\ Hand(<<>>)
    /\ Goto("await", <<"new_context">>)

NewContextMutAppend ==
    /\ user_input' = Append(user_input, Msg("developer", prompt))
    /\ context_depth' = 0
    /\ UNCHANGED <<total_tokens, prompt, model>>
    /\ Hand(<<>>)
    /\ Goto("await", <<"new_context">>)

NewContextMutZeroTokens ==
    /\ user_input' = <<Msg("developer", prompt)>>
    /\ context_depth' = 0
    /\ total_tokens' = 0
    /\ UNCHANGED <<prompt, model>>
    /\ Hand(<<>>)
    /\ Goto("await", <<"new_context">>)

NewContext ==
    /\ user_input' = <<Msg("developer", prompt)>>
    /\ context_depth' = 0
    /\ UNCHANGED <<total_tokens, prompt, model>>
    /\ Hand(<<>>)
    /\ Goto("await", <<"new_context">>)

ShowOnlyMutAppend(what) ==
    /\ user_input' = IF what = "ignored"
                        THEN Append(user_input, Msg("user", input_query'))
                        ELSE user_input
    /\ UNCHANGED <<context_depth, total_tokens, prompt, model>>
    /\ Hand(<<>>)
    /\ GotoShowing("await", <<what>>,
                   IF what = "show_prompt" THEN <<prompt>> ELSE <<>>)

\* the /p and /m branches, and a line no branch takes: the prompt goes to
\* the pager, the menu is printed, or nothing happens
ShowOnly(what) ==
    /\ UNCHANGED <<user_input, context_depth, total_tokens, prompt, model>>
    /\ Hand(<<>>)
    /\ GotoShowing("await", <<what>>,
                   IF what = "show_prompt" THEN <<prompt>> ELSE <<>>)

\* load_prompt_from_file(filename): the text of the file, or the exception
\* open()/read() raised (an OSError is what socket.error names)
LoadResults ==
    [exc : {"-"}, text : PromptFiles]
      \cup [exc : {"socket.error", "Exception"}, text : {<<>>}]

\* the /r branch
ReloadPrompt ==
    \/ \E l \in {x \in LoadResults : x.exc # "-"} :
          /\ UNCHANGED <<user_input, context_depth, total_tokens,
                         prompt, model>>
          /\ Hand(<<>>)
          /\ Unwind(l.exc, <<"reload_failed", "load_prompt_from_file">>)
    \/ \E l \in {x \in LoadResults : x.exc = "-"}, info \in DeviceInfoResults :
          IF info.exc # "-"
            THEN /\ prompt' = l.text
                 /\ Hand(info.asked)
                 /\ UNCHANGED <<user_input, context_depth, total_tokens, model>>
                 /\ Unwind(info.exc, <<"reload_failed", "get_device_info">>)
            ELSE /\ prompt' = l.text \o info.text
                 /\ user_input' = <<Msg("developer", prompt')>>
                 /\ context_depth' = 0
                 /\ Hand(info.asked)
                 /\ UNCHANGED <<total_tokens, model>>
                 /\ Goto("await", <<"reload">>)

RawCommandMutFiltered ==
    LET command == ParseCommand(input_query')
    IN  /\ UNCHANGED <<user_input, context_depth, total_tokens, prompt, model>>
        /\ IF command = <<>> \/ forbidden(command)
             THEN /\ Hand(<<>>)
                  /\ Goto("await", <<"raw_command", "parse_error">>)
             ELSE \E o \in Outcomes :
                    IF o.kind = "raise"
                      THEN /\ Hand(<<>>)
                           /\ Unwind(o.exc, <<"raw_command">>)
                      ELSE /\ Hand(<<command>>)
                           /\ GotoShowing("await", <<"raw_command", "shown">>,
                                          <<StrOutcome(o)>>)

\* the /c branch
RawCommand ==
    LET command == ParseCommand(input_query')
    IN  /\ UNCHANGED <<user_input, context_depth, total_tokens, prompt, model>>
        /\ IF command = <<>>
             THEN /\ Hand(<<>>)
                  /\ Goto("await", <<"raw_command", "parse_error">>)
             ELSE \E o \in Outcomes :
                    IF o.kind = "raise"
                      THEN /\ Hand(<<>>)
                           /\ Unwind(o.exc, <<"raw_command">>)
                      ELSE /\ Hand(<<command>>)
                           /\ GotoShowing("await", <<"raw_command", "shown">>,
                                          <<StrOutcome(o)>>)

SelectModelMutOffMenu ==
    LET model_key == ParseModelKey(input_query')
    IN  /\ UNCHANGED <<user_input, context_depth, total_tokens, prompt>>
        /\ Hand(<<>>)
        /\ IF model_key # <<>>
             THEN /\ model' = IF IntOf(model_key) \in DOMAIN MODELS
                                 THEN MODELS[IntOf(model_key)]
                                 ELSE "None"
                  /\ Goto("await", <<"select_model">>)
             ELSE /\ model' = model
                  /\ Goto("await", <<"select_model", "bad_model">>)

\* the /s branch
SelectModel ==
    LET model_key == ParseModelKey(input_query')
    IN  /\ UNCHANGED <<user_input, context_depth, total_tokens, prompt>>
        /\ Hand(<<>>)
        /\ IF model_key # <<>> /\ IntOf(model_key) \in DOMAIN MODELS
             THEN /\ model' = MODELS[IntOf(model_key)]
                  /\ Goto("await", <<"select_model">>)
             ELSE /\ model' = model
                  /\ Goto("await", <<"select_model", "bad_model">>)

QuitMutNoLog ==
    /\ UNCHANGED <<user_input, context_depth, total_tokens, prompt, model>>
    /\ Hand(<<>>)
    /\ UNCHANGED tokens_logged
    /\ disconnected' = TRUE
    /\ pc' = "exited"
    /\ exit_status' = 0
    /\ event' = <<"quit", "disconnect_device", "sys.exit">>
    /\ recursion' = 0
    /\ displayed' = <<>>

\* the /q branch: log_session_tokens, disconnect_device, sys.exit(0), in
\* that order; SystemExit is no Exception, so no except clause of
\* run_chat_loop or main stops it
Quit ==
    /\ UNCHANGED <<user_input, context_depth, total_tokens, prompt, model>>
    /\ Hand(<<>>)
    /\ tokens_logged' = TRUE
    /\ disconnected' = TRUE
    /\ pc' = "exited"
    /\ exit_status' = 0
    /\ event' = <<"quit", "log_session_tokens", "disconnect_device", "sys.exit">>
    /\ recursion' = 0
    /\ displayed' = <<>>

\* process_operator_commands(operator_cmd_params), the new input_query
\* already stored.  Its first test compares the store, a list, with "" and
\* never holds.
process_operator_commands ==
    LET q == input_query'
    IN  IF StartsWith(q, <<"/", "n">>) THEN NewContext
        ELSE IF StartsWith(q, <<"/", "p">>) THEN ShowOnly("show_prompt")
        ELSE IF StartsWith(q, <<"/", "m">>) THEN ShowOnly("menu")
        ELSE IF StartsWith(q, <<"/", "r">>) THEN ReloadPrompt
        ELSE IF StartsWith(q, <<"/", "c">>) THEN RawCommand
        ELSE IF StartsWith(q, <<"/", "s">>) THEN SelectModel
        ELSE IF StartsWith(q, <<"/", "q">>) THEN Quit
        ELSE ShowOnly("ignored")

\* One pass of the loop that reads a slash-command or an empty line
\* (lines 801-814).
OperatorCommand ==
    /\ pc = "await"
    /\ \E line \in SlashLines :
          /\ input_query' = line
          /\ process_operator_commands
    /\ conf_sent' = <<>>
    /\ PassStarts

\* get_operator_input fails: get_device_prompt(conn) raises before the
\* operator is asked anything
PromptFails ==
    /\ pc = "await"
    /\ \E exc \in Exceptions \ {"KeyboardInterrupt"} :
          Unwind(exc, <<"get_operator_input">>)
    /\ Hand(<<>>)
    /\ conf_sent' = <<>>
    /\ PassStarts
    /\ input_query' = <<>>
    /\ UNCHANGED <<user_input, context_depth, total_tokens, prompt, model>>

\* the operator types free text: it is appended as a user message and the
\* depth grows (lines 816-825); the LLM is asked next
FreeTextMutOverwrite ==
    /\ pc = "await"
    /\ Len(user_input) < MaxStore
    /\ \E line \in FreeLines :
          /\ input_query' = line
          /\ user_input' = <<Msg("user", line)>>
    /\ context_depth' = context_depth + 1
    /\ Hand(<<>>)
    /\ conf_sent' = <<>>
    /\ Goto("llm_first", <<"free_text">>)
    /\ PassStarts
    /\ UNCHANGED <<total_tokens, prompt, model>>

FreeTextMutNoDepth ==
    /\ pc = "await"
    /\ Len(user_input) < MaxStore
    /\ \E line \in FreeLines :
          /\ input_query' = line
          /\ user_input' = Append(user_input, Msg("user", line))
    /\ context_depth' = context_depth
    /\ Hand(<<>>)
    /\ conf_sent' = <<>>
    /\ Goto("llm_first", <<"free_text">>)
    /\ PassStarts
    /\ UNCHANGED <<total_tokens, prompt, model>>

FreeText ==
    /\ pc = "await"
    /\ Len(user_input) < MaxStore
    /\ \E line \in FreeLines :
          /\ input_query' = line
          /\ user_input' = Append(user_input, Msg("user", line))
    /\ context_depth' = context_depth + 1
    /\ Hand(<<>>)
    /\ conf_sent' = <<>>
    /\ Goto("llm_first", <<"free_text">>)
    /\ PassStarts
    /\ UNCHANGED <<total_tokens, prompt, model>>

\* platform.system()
Systems == {"Windows", "Linux"}

\* format_answer(reply): the text itself on Windows, elsewhere what rich
\* prints for the text read as Markdown, 80 columns wide
format_answer(text, system) ==
    IF system = "Windows" THEN text
    ELSE <<"Markdown(">> \o text \o <<")">>

\* "\n".join(lines)
RECURSIVE JoinLines(_)
JoinLines(lines) ==
    IF lines = <<>> THEN <<>>
    ELSE IF Len(lines) = 1 THEN Head(lines)
    ELSE Head(lines) \o <<"\n">> \o JoinLines(Tail(lines))

\* confirm_config_change() for one line typed at its prompt: "yes", "no",
\* or "again" when the function calls itself
confirm_config_changeMutDefaultYes(operator_permission) ==
    IF Lower(operator_permission) = <<"n">> THEN "no" ELSE "yes"

confirm_config_change(operator_permission) ==
    IF Lower(operator_permission) = <<"y">> THEN "yes"
    ELSE IF Lower(operator_permission) = <<"n">> THEN "no"
    ELSE "again"

\* Lines 862-892: what run_chat_loop does with the reply once the command
\* loop is over, up to the confirmation prompt or the end of the pass.
DispatchMutAssign(r, tc, total, store, ev) ==
    IF "answer" \in r.keys
      THEN /\ user_input' = Append(store, Msg("assistant", StrReply(r)))
           /\ total_tokens' = tc
           /\ conf_sent' = <<>>
           /\ \E system \in Systems :
                 GotoShowing("await", ev \o <<"answer">>,
                             <<format_answer(r.answer, system)>>)
    ELSE IF "configure" \in r.keys
      THEN /\ user_input' = store
           /\ total_tokens' = total
           /\ conf_sent' = <<>>
           /\ GotoShowing("confirm", ev \o <<"configure">>,
                           <<JoinLines(r.configure)>>)
    ELSE /\ user_input' = store
         /\ total_tokens' = tc
         /\ conf_sent' = <<>>
         /\ Goto("await", ev \o <<"no_key">>)

DispatchMutShowReply(r, tc, total, store, ev) ==
    IF "answer" \in r.keys
      THEN /\ user_input' = Append(store, Msg("assistant", StrReply(r)))
           /\ total_tokens' = total + tc
           /\ conf_sent' = <<>>
           /\ GotoShowing("await", ev \o <<"answer">>, <<StrReply(r)>>)
    ELSE IF "configure" \in r.keys
      THEN /\ user_input' = store
           /\ total_tokens' = total
           /\ conf_sent' = <<>>
           /\ GotoShowing("confirm", ev \o <<"configure">>,
                           <<JoinLines(r.configure)>>)
    ELSE /\ user_input' = store
         /\ total_tokens' = total + tc
         /\ conf_sent' = <<>>
         /\ Goto("await", ev \o <<"no_key">>)

DispatchMutReplaceLast(r, tc, total, store, ev) ==
    IF "answer" \in r.keys
      THEN /\ user_input' = [store EXCEPT ![Len(store)] =
                                   Msg("assistant", StrReply(r))]
           /\ total_tokens' = total + tc
           /\ conf_sent' = <<>>
           /\ \E system \in Systems :
                 GotoShowing("await", ev \o <<"answer">>,
                             <<format_answer(r.answer, system)>>)
    ELSE IF "configure" \in r.keys
      THEN /\ user_input' = store
           /\ total_tokens' = total
           /\ conf_sent' = <<>>
           /\ GotoShowing("confirm", ev \o <<"configure">>,
                           <<JoinLines(r.configure)>>)
    ELSE /\ user_input' = store
         /\ total_tokens' = total + tc
         /\ conf_sent' = <<>>
         /\ Goto("await", ev \o <<"no_key">>)

DispatchMutConfigureFirst(r, tc, total, store, ev) ==
    IF "configure" \in r.keys
      THEN /\ user_input' = store
           /\ total_tokens' = total
           /\ conf_sent' = <<>>
           /\ GotoShowing("confirm", ev \o <<"configure">>,
                           <<JoinLines(r.configure)>>)
    ELSE IF "answer" \in r.keys
      THEN /\ user_input' = Append(store, Msg("assistant", StrReply(r)))
           /\ total_tokens' = total + tc
           /\ conf_sent' = <<>>
           /\ \E system \in Systems :
                 GotoShowing("await", ev \o <<"answer">>,
                             <<format_answer(r.answer, system)>>)
    ELSE /\ user_input' = store
         /\ total_tokens' = total + tc
         /\ conf_sent' = <<>>
         /\ Goto("await", ev \o <<"no_key">>)

DispatchMutAppendConfigure(r, tc, total, store, ev) ==
    IF "answer" \in r.keys
      THEN /\ user_input' = Append(store, Msg("assistant", StrReply(r)))
           /\ total_tokens' = total + tc
           /\ conf_sent' = <<>>
           /\ \E system \in Systems :
                 GotoShowing("await", ev \o <<"answer">>,
                             <<format_answer(r.answer, system)>>)
    ELSE IF "configure" \in r.keys
      THEN /\ user_input' = Append(store, Msg("assistant", StrReply(r)))
           /\ total_tokens' = total
           /\ conf_sent' = <<>>
           /\ GotoShowing("confirm", ev \o <<"configure">>,
                           <<JoinLines(r.configure)>>)
    ELSE /\ user_input' = store
         /\ total_tokens' = total + tc
         /\ conf_sent' = <<>>
         /\ Goto("await", ev \o <<"no_key">>)

Dispatch(r, tc, total, store, ev) ==
    IF "answer" \in r.keys
      THEN /\ user_input' = Append(store, Msg("assistant", StrReply(r)))
           /\ total_tokens' = total + tc
           /\ conf_sent' = <<>>
           /\ \E system \in Systems :
                 GotoShowing("await", ev \o <<"answer">>,
                             <<format_answer(r.answer, system)>>)
    ELSE IF "configure" \in r.keys
      THEN /\ user_input' = store
           /\ total_tokens' = total
           /\ conf_sent' = <<>>
           /\ GotoShowing("confirm", ev \o <<"configure">>,
                           <<JoinLines(r.configure)>>)
    ELSE /\ user_input' = store
         /\ total_tokens' = total + tc
         /\ conf_sent' = <<>>
         /\ Goto("await", ev \o <<"no_key">>)

\* Lines 835-859 from the loop test to the next LLM call, then 862-892 when
\* the loop is left: r is the reply just received, res what
\* process_llm_commands does with the commands of r.
CommandLoopMutNoBreak(r, tc, total, store, res, ev) ==
    IF ~r.isdict
      THEN /\ user_input' = store
           /\ total_tokens' = total
           /\ UNCHANGED command_resp
           /\ Hand(<<>>)
           /\ conf_sent' = <<>>
           /\ Unwind("Exception", ev \o <<"not_a_dict">>)
    ELSE IF "command" \in r.keys
      THEN LET store1 == Append(store, Msg("assistant", StrReply(r)))
           IN  /\ Hand(res.sent)
               /\ IF res.exc # "-"
                    THEN /\ user_input' = store1
                         /\ total_tokens' = total
                         /\ UNCHANGED command_resp
                         /\ conf_sent' = <<>>
                         /\ Unwind(res.exc, ev \o <<"batch">>)
                  ELSE /\ command_resp' = res.resp
                       /\ user_input' = Append(store1, Msg("user", res.resp))
                       /\ total_tokens' = total
                       /\ conf_sent' = <<>>
                       /\ Goto("llm_again", ev \o <<"batch", "fed_back">>)
    ELSE /\ Hand(<<>>)
         /\ UNCHANGED command_resp
         /\ Dispatch(r, tc, total, store, ev)

CommandLoop(r, tc, total, store, res, ev) ==
    IF ~r.isdict
      THEN /\ user_input' = store
           /\ total_tokens' = total
           /\ UNCHANGED command_resp
           /\ Hand(<<>>)
           /\ conf_sent' = <<>>
           /\ Unwind("Exception", ev \o <<"not_a_dict">>)
    ELSE IF "command" \in r.keys
      THEN LET store1 == Append(store, Msg("assistant", StrReply(r)))
           IN  /\ Hand(res.sent)
               /\ IF res.exc # "-"
                    THEN /\ user_input' = store1
                         /\ total_tokens' = total
                         /\ UNCHANGED command_resp
                         /\ conf_sent' = <<>>
                         /\ Unwind(res.exc, ev \o <<"batch">>)
                  ELSE IF Contains(res.resp, SentinelMark)
                    THEN /\ command_resp' = res.resp
                         /\ Dispatch(r, tc, total, store1,
                                     ev \o <<"batch", "forbidden_break">>)
                  ELSE /\ command_resp' = res.resp
                       /\ user_input' = Append(store1, Msg("user", res.resp))
                       /\ total_tokens' = total
                       /\ conf_sent' = <<>>
                       /\ Goto("llm_again", ev \o <<"batch", "fed_back">>)
    ELSE /\ Hand(<<>>)
         /\ UNCHANGED command_resp
         /\ Dispatch(r, tc, total, store, ev)

\* the messages a reply can make the pass append fit the model's bound on
\* the store, and its tokens the bound on the total
Fits(r, tc) ==
    /\ total_tokens + 2 * tc <= MaxTotal
    /\ (r.isdict /\ "command" \in r.keys) => Len(user_input) + 2 <= MaxStore
    /\ (r.isdict /\ "answer" \in r.keys) => Len(user_input) + 1 <= MaxStore

api_inputMutLastOnly(store) == <<store[Len(store)]>>

\* client.responses.create(model=..., input=api_params["user_input"]): the
\* request carries the store as it is
api_input(store) == store

\* query_llm_api returns for the first call of a turn (lines 827-831)
FirstReply ==
    /\ pc = "llm_first"
    /\ \E res \in LLMResults :
          /\ Fits(res[1], res[2])
          /\ reply' = res[1]
          /\ token_count' = res[2]
          /\ IF IsEmptyDict(res[1])
               THEN /\ UNCHANGED <<user_input, total_tokens, command_resp>>
                    /\ Hand(<<>>)
                    /\ conf_sent' = <<>>
                    /\ Goto("await", <<"llm_call", "empty_reply">>)
               ELSE \E b \in BatchResults(res[1].command) :
                      CommandLoop(res[1], res[2], total_tokens, user_input,
                                  b, <<"llm_call">>)
    /\ llm_calls' = 1
    /\ llm_input' = api_input(user_input)
    /\ UNCHANGED <<context_depth, prompt, model, input_query, answer>>

\* query_llm_api returns inside the command loop (lines 853-859)
NextReply ==
    /\ pc = "llm_again"
    /\ \E res \in LLMResults :
          /\ Fits(res[1], res[2])
          /\ reply' = res[1]
          /\ token_count' = res[2]
          /\ IF IsEmptyDict(res[1])
               THEN /\ UNCHANGED command_resp
                    /\ Hand(<<>>)
                    /\ Dispatch(res[1], res[2], total_tokens + res[2],
                                user_input, <<"llm_call", "empty_reply">>)
               ELSE \E b \in BatchResults(res[1].command) :
                      CommandLoop(res[1], res[2], total_tokens + res[2],
                                  user_input, b, <<"llm_call">>)
    /\ llm_calls' = llm_calls + 1
    /\ llm_input' = api_input(user_input)
    /\ UNCHANGED <<context_depth, prompt, model, input_query, answer>>

\* send_config_to_device(conn, conf_list): the device's text, or None when
\* send_config_set raised (logged)
ConfigOutcomes == {o \in Outcomes : o.kind # "raise"}

ConfirmMutRetry ==
    /\ pc = "confirm"
    /\ \E line \in ConfirmLines :
          /\ answer' = line
          /\ LET verdict == confirm_config_change(line)
             IN  IF verdict = "yes"
                   THEN \E o \in ConfigOutcomes :
                          /\ conf_sent' = IF o.kind = "none"
                                            THEN <<reply.configure, reply.configure>>
                                            ELSE <<reply.configure>>
                          /\ total_tokens' = total_tokens + token_count
                          /\ GotoShowing("await",
                                         <<"confirm", "committed", o.kind>>,
                                         <<IF o.kind = "text" THEN o.text
                                                              ELSE <<>> >>)
                 ELSE IF verdict = "no"
                   THEN /\ conf_sent' = <<>>
                        /\ UNCHANGED total_tokens
                        /\ Goto("await", <<"confirm", "discarded">>)
                 ELSE IF recursion + 1 > RecursionLimit
                   THEN /\ conf_sent' = <<>>
                        /\ UNCHANGED total_tokens
                        /\ Unwind("Exception", <<"confirm", "RecursionError">>)
                 ELSE /\ conf_sent' = <<>>
                      /\ UNCHANGED <<total_tokens, pc, exit_status,
                                     disconnected, tokens_logged>>
                      /\ recursion' = recursion + 1
                      /\ event' = <<"confirm", "asked_again">>
                      /\ displayed' = <<>>
    /\ Hand(<<>>)
    /\ UNCHANGED <<user_input, context_depth, prompt, model, input_query,
                   reply, token_count, command_resp, llm_calls, llm_input>>

\* the operator answers "Commit changes [y/n]: " (lines 877-892)
Confirm ==
    /\ pc = "confirm"
    /\ \E line \in ConfirmLines :
          /\ answer' = line
          /\ LET verdict == confirm_config_change(line)
             IN  IF verdict = "yes"
                   THEN \E o \in ConfigOutcomes :
                          /\ conf_sent' = <<reply.configure>>
                          /\ total_tokens' = total_tokens + token_count
                          /\ GotoShowing("await",
                                         <<"confirm", "committed", o.kind>>,
                                         <<IF o.kind = "text" THEN o.text
                                                              ELSE <<>> >>)
                 ELSE IF verdict = "no"
                   THEN /\ conf_sent' = <<>>
                        /\ UNCHANGED total_tokens
                        /\ Goto("await", <<"confirm", "discarded">>)
                 ELSE IF recursion + 1 > RecursionLimit
                   THEN /\ conf_sent' = <<>>
                        /\ UNCHANGED total_tokens
                        /\ Unwind("Exception", <<"confirm", "RecursionError">>)
                 ELSE /\ conf_sent' = <<>>
                      /\ UNCHANGED <<total_tokens, pc, exit_status,
                                     disconnected, tokens_logged>>
                      /\ recursion' = recursion + 1
                      /\ event' = <<"confirm", "asked_again">>
                      /\ displayed' = <<>>
    /\ Hand(<<>>)
    /\ UNCHANGED <<user_input, context_depth, prompt, model, input_query,
                   reply, token_count, command_resp, llm_calls, llm_input>>

\* Ctrl-C while the loop is blocked on the operator, the LLM or the
\* device: the KeyboardInterrupt reaches main
Interrupt ==
    /\ pc \in {"await", "llm_first", "llm_again", "confirm"}
    /\ Unwind("KeyboardInterrupt", <<"interrupt">>)
    /\ Hand(<<>>)
    /\ conf_sent' = <<>>
    /\ IF pc = "await"
          THEN PassStarts /\ input_query' = <<>>
          ELSE UNCHANGED <<input_query, reply, token_count, command_resp,
                           answer, llm_calls, llm_input>>
    /\ UNCHANGED <<user_input, context_depth, total_tokens, prompt, model>>

Next ==
    \/ OperatorCommand
    \/ PromptFails
    \/ FreeText
    \/ FirstReply
    \/ NextReply
    \/ Confirm
    \/ Interrupt

Spec == Init /\ [][Next]_vars

---------------------------------------------------------------------------
(* gpt_api_prompter.py: the chat loop of the testbed script, with its own  *)
(* configure().  It uses the store, the depth, the line read, the reply,   *)
(* the device text and the records of what went to the device; the other   *)
(* variables stay as they start.                                           *)

\* what the operator may type at "[depth]Prompt: "; every line that is not
\* one of the four the loop tests for goes to the LLM
ChatLoopLines == { <<"/new">>, <<"/prompt">>, <<"/menu">>, <<>> }

\* prompt_gpt(user_input) and json.loads(response.output_text): prompt_gpt
\* logs an exception and returns None, the text is no JSON, or it decodes
\* to a reply
prompt_gpt_Outcomes ==
    [kind : {"none", "undecodable"}, reply : {EmptyReply}]
      \cup [kind : {"decoded"}, reply : Replies]

\* run_command(tb, dev, command): the device's text, or the exception
\* tb.devices[dev].execute raised
run_command_Outcomes ==
    [kind : {"text"}, text : DeviceTexts]
      \cup [kind : {"raise"}, text : {<<>>}]

\* configure(tb, dev, conf_list): the device took the lines, or the failure
\* was caught and logged
configure_Outcomes == {"configured", "failed"}

\* response.output_text of a reply
output_text(r) == StrReply(r)

\* the variables the testbed script has no counterpart for
ChatLoopFrame ==
    UNCHANGED <<total_tokens, prompt, model, token_count, recursion, answer,
                tokens_logged, channel, llm_calls, displayed, llm_input>>

iosxe_chat_loop_Init ==
    /\ pc = "await"
    /\ prompt = <<"cisco_iosxe_prompt.md">>
    /\ user_input = <<Msg("developer", prompt)>>
    /\ context_depth = 0
    /\ total_tokens = 0
    /\ model = "gpt-4o"
    /\ input_query = <<>>
    /\ reply = EmptyReply
    /\ token_count = 0
    /\ command_resp = <<>>
    /\ recursion = 0
    /\ event = <<"start">>
    /\ sent = <<>>
    /\ conf_sent = <<>>
    /\ answer = <<>>
    /\ disconnected = FALSE
    /\ tokens_logged = FALSE
    /\ exit_status = -1
    /\ channel = <<>>
    /\ llm_calls = 0
    /\ displayed = <<>>
    /\ llm_input = <<>>

\* the step ends at position p of the loop
ChatLoopGoto(p, ev) ==
    /\ pc' = p
    /\ event' = ev
    /\ UNCHANGED <<disconnected, exit_status>>

\* lines 99-121: /new, /prompt, /menu and the empty line
iosxe_chat_loop_Command ==
    /\ pc = "await"
    /\ \E line \in ChatLoopLines :
          /\ input_query' = line
          /\ IF line = <<"/new">>
               THEN /\ user_input' = <<Msg("developer", prompt)>>
                    /\ context_depth' = 0
                    /\ ChatLoopGoto("await", <<"new_context">>)
               ELSE /\ UNCHANGED <<user_input, context_depth>>
                    /\ ChatLoopGoto("await", <<"ignored">>)
    /\ reply' = EmptyReply
    /\ command_resp' = <<>>
    /\ sent' = <<>>
    /\ conf_sent' = <<>>
    /\ ChatLoopFrame

\* lines 123-125: any other line is appended and sent to the LLM
iosxe_chat_loop_FreeText ==
    /\ pc = "await"
    /\ Len(user_input) < MaxStore
    /\ \E line \in FreeLines :
          /\ input_query' = line
          /\ user_input' = Append(user_input, Msg("user", line))
    /\ context_depth' = context_depth + 1
    /\ reply' = EmptyReply
    /\ command_resp' = <<>>
    /\ sent' = <<>>
    /\ conf_sent' = <<>>
    /\ ChatLoopGoto("llm_first", <<"free_text">>)
    /\ ChatLoopFrame

\* lines 127-182: the first reply of a turn.  answer is tested first, then
\* command, then configure, which goes to configure() at once.
iosxe_chat_loop_FirstReply ==
    /\ pc = "llm_first"
    /\ \E o \in prompt_gpt_Outcomes :
          /\ reply' = o.reply
          /\ IF o.kind = "none"
               THEN /\ UNCHANGED <<user_input, command_resp>>
                    /\ sent' = <<>> /\ conf_sent' = <<>>
                    /\ ChatLoopGoto("await", <<"llm_call", "no_response">>)
             ELSE IF o.kind = "undecodable" \/ ~o.reply.isdict
               THEN /\ UNCHANGED <<user_input, command_resp>>
                    /\ sent' = <<>> /\ conf_sent' = <<>>
                    /\ ChatLoopGoto("await", <<"llm_call", "Exception">>)
             ELSE IF "answer" \in o.reply.keys
               THEN /\ Len(user_input) < MaxStore
                    /\ user_input' =
                          Append(user_input,
                                 Msg("assistant", output_text(o.reply)))
                    /\ UNCHANGED command_resp
                    /\ sent' = <<>> /\ conf_sent' = <<>>
                    /\ ChatLoopGoto("await", <<"llm_call", "answer">>)
             ELSE IF "command" \in o.reply.keys
               THEN /\ Len(user_input) + 2 <= MaxStore
                    /\ \E d \in run_command_Outcomes :
                          /\ sent' = o.reply.command
                          /\ conf_sent' = <<>>
                          /\ IF d.kind = "raise"
                               THEN /\ user_input' =
                                          Append(user_input,
                                                 Msg("assistant",
                                                     output_text(o.reply)))
                                    /\ UNCHANGED command_resp
                                    /\ ChatLoopGoto("await",
                                          <<"llm_call", "command", "Exception">>)
                               ELSE /\ user_input' = user_input
                                          \o << Msg("assistant",
                                                    output_text(o.reply)),
                                                Msg("user", d.text) >>
                                    /\ command_resp' = d.text
                                    /\ ChatLoopGoto("llm_again",
                                          <<"llm_call", "command">>)
             ELSE IF "configure" \in o.reply.keys
               THEN \E c \in configure_Outcomes :
                      /\ UNCHANGED <<user_input, command_resp>>
                      /\ sent' = <<>>
                      /\ conf_sent' = <<o.reply.configure>>
                      /\ ChatLoopGoto("await", <<"llm_call", "configure", c>>)
             ELSE /\ UNCHANGED <<user_input, command_resp>>
                  /\ sent' = <<>> /\ conf_sent' = <<>>
                  /\ ChatLoopGoto("await", <<"llm_call", "no_key">>)
    /\ UNCHANGED <<context_depth, input_query>>
    /\ ChatLoopFrame

\* lines 158-180: the reply to the device's text; only answer is looked for
iosxe_chat_loop_NextReply ==
    /\ pc = "llm_again"
    /\ \E o \in prompt_gpt_Outcomes :
          /\ reply' = o.reply
          /\ IF o.kind = "none"
               THEN /\ UNCHANGED user_input
                    /\ ChatLoopGoto("await", <<"llm_call", "no_response">>)
             ELSE IF o.kind = "undecodable" \/ ~o.reply.isdict
               THEN /\ UNCHANGED user_input
                    /\ ChatLoopGoto("await", <<"llm_call", "Exception">>)
             ELSE IF "answer" \in o.reply.keys
               THEN /\ user_input' =
                          Append(user_input,
                                 Msg("assistant", output_text(o.reply)))
                    /\ ChatLoopGoto("await", <<"llm_call", "answer">>)
             ELSE /\ UNCHANGED user_input
                  /\ ChatLoopGoto("await", <<"llm_call", "no_answer">>)
    /\ sent' = <<>>
    /\ conf_sent' = <<>>
    /\ UNCHANGED <<context_depth, input_query, command_resp>>
    /\ ChatLoopFrame

\* lines 184-185 and main(): Ctrl-C makes the loop return, main disconnects
\* the testbed and the script ends
iosxe_chat_loop_Interrupt ==
    /\ pc \in {"await", "llm_first", "llm_again"}
    /\ pc' = "exited"
    /\ event' = <<"interrupt", "KeyboardInterrupt">>
    /\ disconnected' = TRUE
    /\ exit_status' = 0
    /\ sent' = <<>>
    /\ conf_sent' = <<>>
    /\ UNCHANGED <<user_input, context_depth, input_query, reply,
                   command_resp>>
    /\ ChatLoopFrame

iosxe_chat_loop_Next ==
    \/ iosxe_chat_loop_Command
    \/ iosxe_chat_loop_FreeText
    \/ iosxe_chat_loop_FirstReply
    \/ iosxe_chat_loop_NextReply
    \/ iosxe_chat_loop_Interrupt

iosxe_chat_loop_Spec == iosxe_chat_loop_Init /\ [][iosxe_chat_loop_Next]_vars

---------------------------------------------------------------------------
(* Properties *)

Range(s) == {s[i] : i \in DOMAIN s}

Last(s) == s[Len(s)]

Permitted(command) == ~forbidden(command)

HasForbidden(commands) == \E i \in DOMAIN commands : forbidden(commands[i])

\* the last step ran process_llm_commands and the call returned
BatchReturned ==
    "forbidden_break" \in Range(event) \/ "fed_back" \in Range(event)

\* the first word of a command, in lower case
LeadingVerb(command) ==
    Lower(SubSeq(command, 1, RunEnd(command, 1, Range(command) \ Whitespace)))

\* C1: the configuration is submitted to the device only by a step that
\* answers the confirmation prompt of a reply holding configure with y or Y,
\* and it is the configure lines of that reply that are submitted; a step
\* that answers n or N submits nothing, sends no command and returns to
\* awaiting operator input.
C1_ConfigOnlyAfterYes ==
    [][ /\ (conf_sent' # <<>>) =>
              /\ pc = "confirm"
              /\ "configure" \in reply.keys
              /\ Lower(answer') = <<"y">>
              /\ conf_sent' = <<reply.configure>>
        /\ (pc = "confirm" /\ event'[1] = "confirm" /\ Lower(answer') = <<"n">>) =>
              /\ conf_sent' = <<>>
              /\ sent' = <<>>
              /\ pc' = "await" ]_vars

C1_Witness ==
    /\ pc = "await"
    /\ event[1] = "confirm"
    /\ answer = <<"Y">>
    /\ conf_sent = <<ConfigLines>>

\* C2: when process_llm_commands has run on a batch, no command of the
\* batch that the filter classifies as forbidden was handed to the device,
\* and when the call returned its text holds the rejection sentinel with
\* the literal command.
C2_ForbiddenNeverSent ==
    ("batch" \in Range(event)) =>
        \A i \in DOMAIN reply.command :
            forbidden(reply.command[i]) =>
                /\ reply.command[i] \notin Range(sent)
                /\ BatchReturned =>
                      Contains(command_resp, SentinelHead \o reply.command[i])

C2_Witness ==
    /\ "forbidden_break" \in Range(event)
    /\ reply.command = BatchForb
    /\ sent = <<>>
    /\ command_resp = SentinelHead \o cmd_reload

\* C3: a step that runs a batch holding a forbidden command, for a reply
\* that is Command only, makes no further LLM call: the pass ends awaiting
\* operator input (or the process ends, when the device session raised).
C3_LoopExitsOnForbidden ==
    [][ ("batch" \in Range(event') /\ reply'.keys = {"command"}
            /\ HasForbidden(reply'.command)) =>
          \/ pc' = "await"
          \/ pc' = "exited" /\ Last(event') \in Exceptions ]_vars

C3_Witness ==
    /\ pc = "await"
    /\ "forbidden_break" \in Range(event)
    /\ reply.keys = {"command"}
    /\ HasForbidden(reply.command)

\* C4 as claimed: when a command of the batch is rejected, the commands sent
\* to the device are those before the first rejected one, and the text ends
\* with its sentinel.
C4_StopsAtRejected ==
    (BatchReturned /\ HasForbidden(reply.command)) =>
        LET i == CHOOSE k \in DOMAIN reply.command :
                    /\ forbidden(reply.command[k])
                    /\ \A j \in 1..(k - 1) : ~forbidden(reply.command[j])
            tail == SentinelHead \o reply.command[i]
        IN  /\ sent = SubSeq(reply.command, 1, i - 1)
            /\ Len(command_resp) >= Len(tail)
            /\ SubSeq(command_resp, Len(command_resp) - Len(tail) + 1,
                      Len(command_resp)) = tail

\* C4 amended: process_llm_commands goes through the whole batch: every
\* command the filter permits is sent to the device, in batch order, those
\* after a rejected command included, and the text holds one sentinel for
\* every rejected command.
C4_ContinuesAfterRejected ==
    BatchReturned =>
        /\ sent = SelectSeq(reply.command, Permitted)
        /\ \A i \in DOMAIN reply.command :
              forbidden(reply.command[i]) =>
                  Contains(command_resp, SentinelHead \o reply.command[i])

C4_Witness ==
    /\ BatchReturned
    /\ reply.command = BatchMixed
    /\ sent = <<cmd_show, cmd_erase>>

\* C5: the store is never empty and starts with a developer message; only
\* the new-context and reload branches change that message, and they leave
\* the depth at zero.
C5_DeveloperFirst ==
    /\ [](Len(user_input) >= 1 /\ user_input[1].role = "developer")
    /\ [][ /\ (user_input'[1] # user_input[1]) =>
                 event' \in {<<"new_context">>, <<"reload">>}
           /\ (event' \in {<<"new_context">>, <<"reload">>}) =>
                 context_depth' = 0 ]_vars

C5_Witness ==
    /\ event = <<"new_context">>
    /\ user_input = <<Msg("developer", <<"ixc_prompt.md">>)>>
    /\ context_depth = 0
    /\ total_tokens > 0

\* C6: while the loop awaits operator input, the depth is zero exactly when
\* the store holds the developer message alone.
C6_DepthZeroIffFresh ==
    (pc = "await") => (context_depth = 0 <=> Len(user_input) = 1)

C6_Witness ==
    /\ pc = "await"
    /\ context_depth = 0
    /\ Len(user_input) = 1
    /\ total_tokens > 0
    /\ event = <<"reload">>

\* C7: a /n pass leaves a store that is one developer message with the
\* current prompt, a depth of zero, and the token total, the model and the
\* prompt as they were.
C7_NewContextEffect ==
    [][ (pc = "await" /\ StartsWith(input_query', <<"/", "n">>)) =>
            /\ user_input' = <<Msg("developer", prompt)>>
            /\ context_depth' = 0
            /\ total_tokens' = total_tokens
            /\ model' = model
            /\ prompt' = prompt ]_vars

C7_Witness ==
    /\ input_query = <<"/", "n">>
    /\ event = <<"new_context">>
    /\ total_tokens > 0
    /\ model = MODELS[2]
    /\ user_input = <<Msg("developer", prompt)>>

\* C8: a /n pass taken right after a /n pass changes neither the store nor
\* the depth nor the token total.
C8_ResetIdempotent ==
    [][ (pc = "await" /\ event = <<"new_context">>
            /\ StartsWith(input_query', <<"/", "n">>)) =>
            /\ user_input' = user_input
            /\ context_depth' = context_depth
            /\ total_tokens' = total_tokens ]_vars

C8_Witness ==
    /\ pc = "await"
    /\ event = <<"new_context">>
    /\ input_query = <<"/", "n">>
    /\ Len(user_input) = 1
    /\ context_depth = 0

\* C9: no step lowers total_tokens.
C9_TokensMonotone == [][total_tokens' >= total_tokens]_vars

C9_Witness ==
    /\ pc = "await"
    /\ total_tokens > 0
    /\ event = <<"llm_call", "empty_reply">>

ClaimedVerbs ==
    {cmd_copy, cmd_erase, cmd_reload, cmd_debug, Lower(cmd_DELETE)}

\* C10 as claimed: of a batch process_llm_commands has gone through, every
\* command whose first word is copy, erase, reload, debug or delete in any
\* letter case was rejected, and every show command was sent.
C10_FilterCoversClaimedVerbs ==
    BatchReturned =>
        \A i \in DOMAIN reply.command :
            LET command == reply.command[i]
            IN  /\ (LeadingVerb(command) \in ClaimedVerbs) =>
                      /\ forbidden(command)
                      /\ command \notin Range(sent)
                /\ (LeadingVerb(command) = cmd_show) =>
                      /\ ~forbidden(command)
                      /\ command \in Range(sent)

\* C10 amended: every command whose first word is copy, reload, debug or
\* delete in any letter case was rejected; the pattern does not cover erase,
\* which was sent to the device like every show command.
C10_FilterCoversPattern ==
    BatchReturned =>
        \A i \in DOMAIN reply.command :
            LET command == reply.command[i]
            IN  /\ (LeadingVerb(command) \in ClaimedVerbs \ {cmd_erase}) =>
                      /\ forbidden(command)
                      /\ command \notin Range(sent)
                /\ (LeadingVerb(command) \in {cmd_show, cmd_erase}) =>
                      /\ ~forbidden(command)
                      /\ command \in Range(sent)

C10_Witness ==
    /\ "forbidden_break" \in Range(event)
    /\ reply.command = BatchMixed
    /\ cmd_erase \in Range(sent)
    /\ Contains(command_resp, SentinelHead \o cmd_COPY)
    /\ Contains(command_resp, SentinelHead \o cmd_DELETE)

\* C11 as claimed: every command handed to the device that ends in "?" took
\* the completion-query path (write_channel/read_channel) and every other
\* command the standard path (send_command).
C11_RoutedByTrailingQuestionMark ==
    /\ DOMAIN channel = DOMAIN sent
    /\ \A i \in DOMAIN sent :
          IF Last(sent[i]) = "?"
            THEN channel[i] = "write_channel"
            ELSE channel[i] = "send_command"

\* C12: a failing request or an unparsable text makes query_llm_api return
\* the empty reply with zero tokens, and the step in which run_chat_loop
\* receives the empty reply sends nothing to the device, appends nothing to
\* the store, ends awaiting operator input and leaves the process running.
C12_LLMFailureEndsTurn ==
    /\ \A o \in LLMOutcomes :
          (o.kind = "raises") => query_llm_api(o) = <<EmptyReply, 0>>
    /\ [][ ("empty_reply" \in Range(event')) =>
              /\ reply' = EmptyReply
              /\ sent' = <<>>
              /\ conf_sent' = <<>>
              /\ displayed' = <<>>
              /\ user_input' = user_input
              /\ pc' = "await"
              /\ exit_status' = exit_status
              /\ disconnected' = disconnected ]_vars

C12_Witness ==
    /\ pc = "await"
    /\ "empty_reply" \in Range(event)
    /\ llm_calls = 2
    /\ Last(user_input).role = "user"
    /\ Last(user_input).content = command_resp

\* the branches in which run_chat_loop or process_operator_commands itself
\* writes an error to the log or the terminal (lines 830, 858, 667, 679,
\* 682, 897, 900, 903)
ErrorBranches ==
    {"empty_reply", "parse_error", "bad_model",
     "ConnectionException", "socket.error", "Exception"}

Reported(ev) == Range(ev) \cap ErrorBranches # {}

\* C13 as claimed: the step that receives a parsed reply holding none of
\* the keys answer, command, configure reports an error and ends awaiting
\* operator input.
C13_NoKeyReplyReported ==
    [][ (event'[1] = "llm_call" /\ reply'.keys = {}) =>
            /\ pc' = "await"
            /\ Reported(event') ]_vars

C15_QuitTearsDown ==
    /\ [][ (pc = "await" /\ StartsWith(input_query', <<"/", "q">>)) =>
              /\ event' = <<"quit", "log_session_tokens",
                            "disconnect_device", "sys.exit">>
              /\ tokens_logged'
              /\ ~disconnected /\ disconnected'
              /\ pc' = "exited"
              /\ exit_status' = 0
              /\ sent' = <<>> /\ conf_sent' = <<>> /\ llm_calls' = 0
              /\ total_tokens' = total_tokens ]_vars
    /\ [][pc # "exited"]_vars

C15_Witness ==
    /\ pc = "exited"
    /\ event[1] = "quit"
    /\ tokens_logged /\ disconnected
    /\ exit_status = 0
    /\ total_tokens > 0

\* C16 as claimed: a step in which the device session raised while a command
\* of a batch was executed or the configuration was submitted ends the
\* process with status 1.
C16_DeviceFailureFatal ==
    [][ ( \/ event' = <<"confirm", "committed", "none">>
          \/ "fed_back" \in Range(event') /\ Contains(command_resp', NoneText)
          \/ /\ "batch" \in Range(event')
             /\ Last(event') \in Exceptions \ {"KeyboardInterrupt"} ) =>
            /\ pc' = "exited"
            /\ exit_status' = 1 ]_vars

\* C17 as claimed: when the process has ended with status 1, the device
\* session was disconnected.
C17_DisconnectBeforeFailureExit ==
    (pc = "exited" /\ exit_status = 1) => disconnected

\* C18 as claimed: an interrupt while the loop is blocked on the operator's
\* line ends the process with the token total logged and the device session
\* disconnected.
C18_InterruptTearsDown ==
    [][ (pc = "await" /\ event' = <<"interrupt", "KeyboardInterrupt">>) =>
            /\ pc' = "exited"
            /\ tokens_logged'
            /\ disconnected' ]_vars

\* the prefixes process_operator_commands knows
KnownPrefixes ==
    {<<"/", c>> : c \in {"n", "p", "m", "r", "c", "s", "q"}}

\* C19 as claimed: a pass that reads a line starting with "/" that has none
\* of the known prefixes reports an error, changes neither the store, the
\* depth, the token total, the prompt nor the model, and makes no LLM call
\* and sends no device command.
C19_UnknownSlashReported ==
    [][ ( /\ pc = "await"
          /\ StartsWith(input_query', <<"/">>)
          /\ \A k \in KnownPrefixes : ~StartsWith(input_query', k) ) =>
            /\ Reported(event')
            /\ UNCHANGED <<user_input, context_depth, total_tokens,
                           prompt, model>>
            /\ sent' = <<>>
            /\ llm_calls' = 0
            /\ pc' = "await" ]_vars

\* the step reads a line from the operator that is empty or starts with "/"
OperatorLineRead ==
    /\ pc = "await"
    /\ event'[1] \notin {"interrupt", "get_operator_input"}
    /\ input_query' = <<>> \/ StartsWith(input_query', <<"/">>)

\* what such a step does to the store, the depth and the LLM
NeverReachesLLM ==
    /\ llm_calls' = 0
    /\ pc' \notin {"llm_first", "llm_again", "confirm"}
    /\ context_depth' <= context_depth
    /\ \A i \in DOMAIN user_input' :
          \/ user_input'[i].role # "user"
          \/ i \in DOMAIN user_input /\ user_input'[i] = user_input[i]
    /\ (user_input' # user_input) =>
          \/ StartsWith(input_query', <<"/", "n">>)
          \/ StartsWith(input_query', <<"/", "r">>)

\* C20 as claimed: a pass that reads an empty line or a line starting with
\* "/" makes no LLM call, appends no user message, does not raise the depth
\* and ends awaiting operator input; only /n and /r change the store.
C20_OperatorCommandsStayAwaiting ==
    [][ OperatorLineRead => (NeverReachesLLM /\ pc' = "await") ]_vars

\* C20 amended: such a pass makes no LLM call, appends no user message, does
\* not raise the depth, and only /n and /r change the store; it ends
\* awaiting operator input unless it ends the process: /q does, and so does
\* an interrupt or a connection-level failure (ConnectionException,
\* socket.error) raised while /r or /c runs.
C20_OperatorCommandsNeverReachLLM ==
    [][ OperatorLineRead =>
          /\ NeverReachesLLM
          /\ \/ pc' = "await"
             \/ /\ pc' = "exited"
                /\ \/ StartsWith(input_query', <<"/", "q">>)
                   \/ /\ \/ StartsWith(input_query', <<"/", "r">>)
                         \/ StartsWith(input_query', <<"/", "c">>)
                      /\ Last(event') \in {"ConnectionException",
                                           "socket.error",
                                           "KeyboardInterrupt"} ]_vars

C20_Witness ==
    /\ pc = "await"
    /\ input_query = <<"/", "c", " ">> \o cmd_show
    /\ event = <<"raw_command", "shown">>
    /\ sent = <<cmd_show>>
    /\ Len(user_input) = 3
    /\ context_depth = 1
    /\ llm_calls = 0

\* C21: the model is always a name of the menu; a /s pass with an index of
\* the menu sets the model to that entry, and a /s pass with no index, with
\* text that is no number or with a number outside the menu reports the bad
\* selection and leaves the model, the store, the depth, the token total
\* and the prompt as they were, sending nothing.
C21_ModelFromMenu ==
    /\ [](model \in {"gpt-5-mini", "gpt-5", "gpt-5-nano"})
    /\ [][ (pc = "await" /\ input_query' = <<"/", "s", " ", "2">>) =>
              /\ model' = "gpt-5"
              /\ pc' = "await" ]_vars
    /\ [][ ( /\ pc = "await"
            /\ input_query' \in { <<"/", "s">>, <<"/", "s", " ", "x">>,
                                  <<"/", "s", " ", "9">> } ) =>
              /\ "bad_model" \in Range(event')
              /\ Reported(event')
              /\ UNCHANGED <<model, user_input, context_depth, total_tokens,
                             prompt>>
              /\ sent' = <<>> /\ conf_sent' = <<>> /\ llm_calls' = 0
              /\ pc' = "await" ]_vars

C21_Witness ==
    /\ pc = "await"
    /\ input_query = <<"/", "s", " ", "9">>
    /\ event = <<"select_model", "bad_model">>
    /\ model = "gpt-5"

C23_CommandReplyFollowedByResult ==
    BatchReturned =>
        \E i \in 1..(Len(user_input) - 1) :
            /\ user_input[i] = Msg("assistant", StrReply(reply))
            /\ user_input[i + 1] = Msg("user", command_resp)
            /\ HasForbidden(reply.command) =>
                  Contains(user_input[i + 1].content, SentinelMark)

\* the calls that block on the LLM or on the operator return: the LLM
\* answers every request and the operator answers the confirmation prompt
LiveSpec ==
    Spec /\ WF_vars(FirstReply) /\ WF_vars(NextReply) /\ WF_vars(Confirm)

\* C24 as claimed: every turn returns to awaiting operator input (or the
\* process ends), and a step that receives a reply and is not cut short by
\* an exception goes on to another LLM call exactly when the reply holds
\* command, is not the empty reply and none of its commands is forbidden.
C24_TurnEndsLoopRunsOnCommands ==
    /\ (pc \in {"llm_first", "llm_again", "confirm"})
          ~> (pc \in {"await", "exited"})
    /\ [][ (event'[1] = "llm_call"
              /\ Last(event') \notin Exceptions) =>
              ( (pc' = "llm_again") <=>
                  /\ "command" \in reply'.keys
                  /\ ~IsEmptyDict(reply')
                  /\ ~HasForbidden(reply'.command) ) ]_vars

\* C25 as claimed: a line other than y or n, in either case, typed at the
\* confirmation prompt makes the prompt come again, with nothing submitted
\* or sent to the device and the turn still open.
C25_OtherInputAsksAgain ==
    [][ ( /\ pc = "confirm"
          /\ event'[1] = "confirm"
          /\ Lower(answer') \notin {<<"y">>, <<"n">>} ) =>
            /\ pc' = "confirm"
            /\ event' = <<"confirm", "asked_again">>
            /\ conf_sent' = <<>>
            /\ sent' = <<>> ]_vars

\* C26: a step submits at most one configuration set, it does so only when
\* answering the confirmation prompt, the set is the configure lines of the
\* reply in their order, and the step ends awaiting operator input without
\* a device command; when the device raised, the failure is logged, an empty
\* text is shown and nothing is submitted again; the confirmation prompt is
\* only reached by a new reply of the LLM.
C26_ConfigSubmittedOnce ==
    /\ [][ (conf_sent' # <<>>) =>
              /\ pc = "confirm"
              /\ Len(conf_sent') = 1
              /\ conf_sent'[1] = reply.configure
              /\ sent' = <<>>
              /\ pc' = "await" ]_vars
    /\ [][ (pc = "confirm" /\ "committed" \in Range(event')) =>
              /\ conf_sent' = <<reply.configure>>
              /\ Last(event') = "none" => displayed' = << <<>> >>
              /\ pc' = "await" ]_vars
    /\ [][ (pc # "confirm" /\ pc' = "confirm") =>
              /\ event'[1] = "llm_call"
              /\ "configure" \in reply'.keys ]_vars

C26_Witness ==
    /\ pc = "await"
    /\ event = <<"confirm", "committed", "none">>
    /\ conf_sent = <<ConfigLines>>
    /\ displayed = << <<>> >>
    /\ sent = <<>>

\* the user messages of the store that hold a line the operator typed
FreeTextMessages ==
    {i \in DOMAIN user_input :
        user_input[i].role = "user" /\ user_input[i].content \in FreeLines}

\* C27: the depth is the number of operator lines in the store, which is
\* emptied of them exactly when the depth is reset; the step that accepts a
\* free-text line adds one to the depth, and no step of the turn that
\* follows changes it, however the turn ends.
C27_DepthCountsFreeText ==
    /\ [](context_depth = Cardinality(FreeTextMessages))
    /\ [][ (pc = "await" /\ pc' = "llm_first") =>
              context_depth' = context_depth + 1 ]_vars
    /\ [][ (pc \in {"llm_first", "llm_again", "confirm"}) =>
              context_depth' = context_depth ]_vars

C27_Witness ==
    /\ pc = "await"
    /\ context_depth = 2
    /\ event = <<"llm_call", "empty_reply">>
    /\ Cardinality(FreeTextMessages) = 2

\* C28 as claimed: a step that ends the process, other than by an
\* interrupt, is the /q pass or a step in which the device session raised a
\* connection-level failure.
C28_OnlyConnectionOrQuitEnds ==
    [][ (pc # "exited" /\ pc' = "exited"
            /\ Last(event') # "KeyboardInterrupt") =>
          \/ event'[1] = "quit"
          \/ /\ Last(event') \in {"ConnectionException", "socket.error"}
             /\ "load_prompt_from_file" \notin Range(event') ]_vars

\* C29 as claimed: a /r pass in which the prompt file cannot be read reports
\* the error, leaves the prompt, the store and the depth as they were and
\* ends awaiting operator input.
C29_ReloadFailureContinues ==
    [][ ("load_prompt_from_file" \in Range(event')) =>
            /\ Reported(event')
            /\ UNCHANGED <<prompt, user_input, context_depth>>
            /\ pc' = "await" ]_vars

\* C30 as claimed, for the turns of one and of two LLM calls: when the total
\* is the sum of all calls at every point where the loop awaits the
\* operator, a turn adds to it the tokens of each of its calls.  The total is
\* as the turn found it until the turn's last step (the first call's tokens
\* are in token_count when a second call or the confirmation follows).
C30_TokensSummedOnce ==
    /\ [][ (pc = "llm_first" /\ pc' = "await"
              /\ Last(event') \notin Exceptions) =>
              total_tokens' = total_tokens + token_count' ]_vars
    /\ [][ (pc = "llm_again" /\ llm_calls = 1 /\ pc' = "await"
              /\ Last(event') \notin Exceptions) =>
              total_tokens' = total_tokens + token_count + token_count' ]_vars
    /\ [][ (pc = "confirm" /\ llm_calls = 1 /\ pc' = "await"
              /\ Last(event') \notin Exceptions) =>
              total_tokens' = total_tokens + token_count ]_vars

\* C31 as claimed: the command loop is left on the forbidden-command path
\* only when a command of the batch was rejected by the filter.
C31_BreakOnlyOnRejection ==
    ("forbidden_break" \in Range(event)) => HasForbidden(reply.command)

\* C32: every LLM call is given the store as it is at the call, which
\* starts with the developer message and ends with a user message: the
\* operator's line at the first call of a turn, the device's text at a later
\* one.
C32_CallCarriesWholeStore ==
    /\ [][ (event'[1] = "llm_call") =>
              /\ llm_input' = user_input
              /\ llm_input'[1].role = "developer"
              /\ Last(llm_input').role = "user"
              /\ Last(llm_input').content =
                    IF pc = "llm_first" THEN input_query ELSE command_resp
            ]_vars
    /\ [](pc \in {"llm_first", "llm_again"} =>
              Last(user_input).role = "user")

C32_Witness ==
    /\ llm_calls = 2
    /\ Len(llm_input) = 4
    /\ [i \in 1..4 |-> llm_input[i].role]
          = <<"developer", "user", "assistant", "user">>
    /\ llm_input[4].content = VersionText
    /\ event = <<"llm_call", "answer">>

\* s is a prefix of t
IsPrefix(s, t) == Len(s) <= Len(t) /\ SubSeq(t, 1, Len(s)) = s

\* C33: every step other than a /n pass or a completed /r pass leaves the
\* store it found as a prefix of the store it leaves.
C33_AppendOnly ==
    [][ (event' \notin {<<"new_context">>, <<"reload">>}) =>
            IsPrefix(user_input, user_input') ]_vars

C33_Witness ==
    /\ pc = "await"
    /\ Len(user_input) = 5
    /\ context_depth = 2
    /\ event = <<"llm_call", "answer">>

C35_ConfigureAppendsNothing ==
    /\ [][ (event'[1] = "llm_call" /\ reply'.keys = {"configure"}) =>
              /\ pc' = "confirm"
              /\ user_input' = user_input
              /\ Last(user_input').role = "user" ]_vars
    /\ [][ (pc = "confirm" /\ reply.keys = {"configure"}) =>
              /\ user_input' = user_input
              /\ Last(user_input').role = "user"
              /\ (event' = <<"confirm", "discarded">>) =>
                    /\ pc' = "await"
                    /\ UNCHANGED <<context_depth, total_tokens>> ]_vars

C35_Witness ==
    /\ pc = "await"
    /\ event = <<"confirm", "discarded">>
    /\ reply.keys = {"configure"}
    /\ llm_calls = 2
    /\ Len(user_input) = 4
    /\ Last(user_input) = Msg("user", command_resp)

\* C36 as claimed, for the chat loop of the testbed script: a configuration
\* is submitted to the device only by a step that answers a confirmation
\* prompt with y or Y.
C36_ConfigureOnlyAfterConfirmation ==
    [][ (conf_sent' # <<>>) =>
            /\ pc = "confirm"
            /\ Lower(answer') = <<"y">> ]_vars

====
